---- MODULE Spec2Model ----
(***************************************************************************)
(* A model of the time tracker: the activity logger (timetracker/logger.py *)
(* and its prototype track.py), the activity classifier and the            *)
(* aggregation pipeline (timetracker/analyzer.py and its prototype         *)
(* analyze.py).                                                            *)
(*                                                                         *)
(* Python strings are sequences of one-character strings, so that the     *)
(* substring tests, the regular expression, urlparse and str.split are    *)
(* computed on characters as the code computes them.                       *)
(***************************************************************************)
EXTENDS Integers, Sequences, FiniteSets, TLC

\* ------------------------------------------------------------------------
\* String literals of the source
\* ------------------------------------------------------------------------

\* analyzer.py:66  "Google Chrome"
GOOGLE_CHROME ==
    <<"G","o","o","g","l","e"," ","C","h","r","o","m","e">>

\* analyzer.py:76  "Visual Studio Code"
VISUAL_STUDIO_CODE ==
    <<"V","i","s","u","a","l"," ","S","t","u","d","i","o"," ","C","o","d","e">>

\* config.py:22
UNKNOWN_CATEGORY ==
    <<"U","n","k","n","o","w","n">>

\* analyzer.py:73
UNKNOWN_URL ==
    <<"U","n","k","n","o","w","n"," ","U","R","L">>

\* analyzer.py:75  "Chrome - "
CHROME_PREFIX ==
    <<"C","h","r","o","m","e"," ","-"," ">>

\* analyzer.py:79  "VSCode - " and the bare "VSCode"
VSCODE ==
    <<"V","S","C","o","d","e">>

VSCODE_PREFIX ==
    VSCODE \o <<" ","-"," ">>

\* analyzer.py:75,78  the separator " - "
TITLE_SEPARATOR ==
    <<" ","-"," ">>

\* logger.py:119,122 and logger.py:129
PAUSE_APP ==
    <<"_","p","a","u","s","e">>

EXIT_APP ==
    <<"_","e","x","i","t">>

\* The characters \s of the regular expression matches, among those that
\* occur in the titles of this model.
Whitespace ==
    {" ", "\t"}

\* ------------------------------------------------------------------------
\* Python string primitives
\* ------------------------------------------------------------------------

Min(S) ==
    CHOOSE x \in S : \A y \in S : x <= y

\* s[i-1:].startswith(p)
StartsWithAt(s, i, p) ==
    /\ i + Len(p) - 1 <= Len(s)
    /\ \A k \in 1..Len(p) : s[i + k - 1] = p[k]

\* p in s
Contains(s, p) ==
    \E i \in 1..(Len(s) + 1) : StartsWithAt(s, i, p)

\* s.find(p, from), 1-based; 0 when p does not occur
Find(s, p, from) ==
    LET I == {i \in from..(Len(s) + 1) : StartsWithAt(s, i, p)}
    IN  IF I = {} THEN 0 ELSE Min(I)

\* s.split(sep): never the empty list
RECURSIVE Split(_, _)
Split(s, sep) ==
    LET i == Find(s, sep, 1)
    IN  IF i = 0
        THEN <<s>>
        ELSE <<SubSeq(s, 1, i - 1)>> \o Split(SubSeq(s, i + Len(sep), Len(s)), sep)

\* re.search(r"https?://[^\s]*", s): the leftmost match, greedy to the next
\* whitespace character
HTTP_SCHEME ==
    <<"h","t","t","p",":","/","/">>

HTTPS_SCHEME ==
    <<"h","t","t","p","s",":","/","/">>

UrlStartsAt(s, i) ==
    StartsWithAt(s, i, HTTP_SCHEME) \/ StartsWithAt(s, i, HTTPS_SCHEME)

re_search_url(s) ==
    LET starts == {i \in 1..Len(s) : UrlStartsAt(s, i)}
    IN  IF starts = {}
        THEN [found |-> FALSE, text |-> <<>>]
        ELSE LET i  == Min(starts)
                 ws == {j \in i..Len(s) : s[j] \in Whitespace}
                 e  == IF ws = {} THEN Len(s) ELSE Min(ws) - 1
             IN  [found |-> TRUE, text |-> SubSeq(s, i, e)]

\* urllib.parse.urlparse(url).netloc for a url that starts with http:// or
\* https://: the text after "//" up to the first of "/", "?", "#"; urlsplit
\* raises ValueError ("Invalid IPv6 URL") when the netloc has one of "[" and
\* "]" without the other.
NetlocDelimiters ==
    {"/", "?", "#"}

urlparse_cut_at_slash(url) ==
    LET start  == IF StartsWithAt(url, 1, HTTPS_SCHEME)
                  THEN Len(HTTPS_SCHEME) + 1
                  ELSE Len(HTTP_SCHEME) + 1
        delims == {j \in start..Len(url) : url[j] = "/"}
        end    == IF delims = {} THEN Len(url) ELSE Min(delims) - 1
        netloc == SubSeq(url, start, end)
        open   == \E j \in 1..Len(netloc) : netloc[j] = "["
        close  == \E j \in 1..Len(netloc) : netloc[j] = "]"
    IN  [raised |-> (open /\ ~close) \/ (close /\ ~open), netloc |-> netloc]

urlparse(url) ==
    LET start  == IF StartsWithAt(url, 1, HTTPS_SCHEME)
                  THEN Len(HTTPS_SCHEME) + 1
                  ELSE Len(HTTP_SCHEME) + 1
        delims == {j \in start..Len(url) : url[j] \in NetlocDelimiters}
        end    == IF delims = {} THEN Len(url) ELSE Min(delims) - 1
        netloc == SubSeq(url, start, end)
        open   == \E j \in 1..Len(netloc) : netloc[j] = "["
        close  == \E j \in 1..Len(netloc) : netloc[j] = "]"
    IN  [raised |-> (open /\ ~close) \/ (close /\ ~open), netloc |-> netloc]

\* ------------------------------------------------------------------------
\* A cell of the data frame read from the CSV log: NaN or a string
\* ------------------------------------------------------------------------

NaN ==
    [isnull |-> TRUE, text |-> <<>>]

Str(s) ==
    [isnull |-> FALSE, text |-> s]

\* ------------------------------------------------------------------------
\* ActivityAnalyzer.parse_title
\* ------------------------------------------------------------------------

parse_browser(title) ==
    LET url_match == re_search_url(title)
    IN  IF url_match.found
        THEN LET u == urlparse(url_match.text)
             IN  IF u.raised THEN UNKNOWN_URL ELSE u.netloc
        ELSE LET parts == Split(title, TITLE_SEPARATOR)
             IN  CHROME_PREFIX \o parts[Len(parts)]

parse_editor_last_part(title) ==
    LET parts == Split(title, TITLE_SEPARATOR)
    IN  IF parts # <<>> THEN VSCODE_PREFIX \o parts[Len(parts)] ELSE VSCODE

parse_editor(title) ==
    LET parts == Split(title, TITLE_SEPARATOR)
    IN  IF parts # <<>> THEN VSCODE_PREFIX \o parts[1] ELSE VSCODE

\* analyzer.py:61-81. row["app_name"] is a float when read_csv found the
\* cell empty, and "Google Chrome" in row["app_name"] then raises TypeError
Returned(label) ==
    [raised |-> FALSE, label |-> label]

TYPE_ERROR ==
    [raised |-> TRUE, label |-> <<>>]

parse_title(row) ==
    IF row.title.isnull
    THEN Returned(UNKNOWN_CATEGORY)
    ELSE IF row.app_name.isnull
         THEN TYPE_ERROR
         ELSE IF Contains(row.app_name.text, GOOGLE_CHROME)
              THEN Returned(parse_browser(row.title.text))
              ELSE IF Contains(row.app_name.text, VISUAL_STUDIO_CODE)
                   THEN Returned(parse_editor(row.title.text))
                   ELSE Returned(row.app_name.text)

\* ------------------------------------------------------------------------
\* Constants of the configuration
\* ------------------------------------------------------------------------

\* config.py:16
MIN_DURATION_THRESHOLD == 5

\* config.py:15
INACTIVITY_THRESHOLD == 600

\* config.py:14
DEFAULT_LOG_INTERVAL == 10

\* analyzer.py:108,112: pd.to_datetime(unit="s") and .dt.date: the calendar
\* day of a timestamp is its number of whole days since the epoch
SECONDS_PER_DAY == 86400

\* ------------------------------------------------------------------------
\* The CSV log file
\* ------------------------------------------------------------------------

\* config.py:19 ACTIVITY_FIELDS, written by writeheader()
HEADER_LINE ==
    [kind |-> "header", app_name |-> <<>>, title |-> <<>>, timestamp |-> 0]

\* The file that does not exist
NO_FILE ==
    [exists |-> FALSE, lines |-> <<>>]

\* models.py:14-20 WindowInfo.to_dict, as one line of the CSV file: a
\* timestamp that is None or 0 is replaced by the time of the call
to_dict(info, now) ==
    [kind      |-> "row",
     app_name  |-> info.app_name,
     title     |-> info.title,
     timestamp |-> IF info.has_timestamp /\ info.timestamp # 0
                   THEN info.timestamp
                   ELSE now]

\* A subset of the strings pandas.read_csv reads as NaN by default
NA_VALUES ==
    { <<>>,
      <<"N","A">>,
      <<"n","a","n">>,
      <<"n","u","l","l">> }

read_csv_cell(s) ==
    IF s \in NA_VALUES THEN NaN ELSE Str(s)

\* analyzer.py:101-108: pd.read_csv raises when the file is missing or has
\* no line at all; the first line names the columns whatever it is, and
\* activity_df["timestamp"] raises KeyError when that line is not the header
read_csv_missing_as_empty(file) ==
    IF ~file.exists \/ file.lines = <<>> \/ file.lines[1] # HEADER_LINE
    THEN [raised |-> FALSE, rows |-> <<>>]
    ELSE [raised |-> FALSE,
          rows   |-> [i \in 1..(Len(file.lines) - 1) |->
                        [idx       |-> i - 1,
                         app_name  |-> read_csv_cell(file.lines[i + 1].app_name),
                         title     |-> read_csv_cell(file.lines[i + 1].title),
                         timestamp |-> file.lines[i + 1].timestamp,
                         duration  |-> [isnull |-> TRUE, v |-> 0],
                         activity  |-> <<>>,
                         category  |-> <<>>]]]

read_csv(file) ==
    IF ~file.exists \/ file.lines = <<>> \/ file.lines[1] # HEADER_LINE
    THEN [raised |-> TRUE, rows |-> <<>>]
    ELSE [raised |-> FALSE,
          rows   |-> [i \in 1..(Len(file.lines) - 1) |->
                        [idx       |-> i - 1,
                         app_name  |-> read_csv_cell(file.lines[i + 1].app_name),
                         title     |-> read_csv_cell(file.lines[i + 1].title),
                         timestamp |-> file.lines[i + 1].timestamp,
                         duration  |-> [isnull |-> TRUE, v |-> 0],
                         activity  |-> <<>>,
                         category  |-> <<>>]]]

\* ------------------------------------------------------------------------
\* The category store
\* ------------------------------------------------------------------------

EMPTY_DICT ==
    [a \in {} |-> <<>>]

NO_CATEGORY_FILE ==
    [state |-> "absent", content |-> EMPTY_DICT]

\* What the file system does to an open() or a write of the category file
\* during one operation
FaultStates ==
    {"none", "open", "write"}

\* analyzer.py:42-51
_load_categories(file, fault) ==
    IF file.state = "valid" /\ fault # "open"
    THEN file.content
    ELSE EMPTY_DICT

\* analyzer.py:53-59: open(..., "w") truncates; an error is logged and
\* swallowed. A failing open leaves the file alone, a failing write leaves
\* it truncated.
_save_categories(file, cats, fault) ==
    CASE fault = "none"  -> [state |-> "valid", content |-> cats]
      [] fault = "open"  -> file
      [] fault = "write" -> [state |-> "corrupt", content |-> EMPTY_DICT]

\* analyzer.py:83-97, on the state (cats, file); answer is what the user
\* types at the prompt
map_activity_to_category_saving_always(cats, file, fault, activity, answer) ==
    LET added == [a \in (DOMAIN cats) \cup {activity} |->
                     IF a = activity /\ a \notin DOMAIN cats
                     THEN answer ELSE cats[a]]
    IN  [cats |-> added,
         file |-> _save_categories(file, added, fault),
         ret |-> added[activity],
         prompted |-> activity \notin DOMAIN cats, saves |-> 1]

map_activity_to_category_asking_again(cats, file, fault, activity, answer) ==
    IF activity \in DOMAIN cats /\ cats[activity] # UNKNOWN_CATEGORY
    THEN [cats |-> cats, file |-> file, ret |-> cats[activity],
          prompted |-> FALSE, saves |-> 0]
    ELSE LET added == [a \in (DOMAIN cats) \cup {activity} |->
                          IF a = activity THEN answer ELSE cats[a]]
         IN  [cats |-> added,
              file |-> _save_categories(file, added, fault),
              ret |-> answer, prompted |-> TRUE, saves |-> 1]

map_activity_to_category(cats, file, fault, activity, answer) ==
    IF activity \in DOMAIN cats
    THEN [cats |-> cats, file |-> file, ret |-> cats[activity],
          prompted |-> FALSE, saves |-> 0]
    ELSE LET added == [a \in (DOMAIN cats) \cup {activity} |->
                          IF a = activity THEN answer ELSE cats[a]]
         IN  [cats |-> added,
              file |-> _save_categories(file, added, fault),
              ret |-> answer, prompted |-> TRUE, saves |-> 1]

\* ------------------------------------------------------------------------
\* ActivityAnalyzer.process_data: the stages of the pipeline
\* ------------------------------------------------------------------------

RECURSIVE SumSeq(_)
SumSeq(s) ==
    IF s = <<>> THEN 0 ELSE Head(s) + SumSeq(Tail(s))

Range(s) ==
    {s[i] : i \in 1..Len(s)}

date_of(timestamp) ==
    timestamp \div SECONDS_PER_DAY

IsOfDay(row, day) ==
    date_of(row.timestamp) = day

\* analyzer.py:112: the rows of the target date, in the order of the log
filter_by_date_all(df, day) ==
    df

filter_by_date(df, day) ==
    LET keep == {i \in 1..Len(df) : IsOfDay(df[i], day)}
        RECURSIVE Pick(_)
        Pick(i) == IF i > Len(df) THEN <<>>
                   ELSE IF i \in keep THEN <<df[i]>> \o Pick(i + 1)
                   ELSE Pick(i + 1)
    IN  Pick(1)

\* analyzer.py:119-120: duration = timestamp.shift(-1) - timestamp (NaN on
\* the last row), then the last row is removed
calc_durations_shift_forward(df) ==
    LET timed == [i \in 1..Len(df) |->
                    [df[i] EXCEPT !.duration =
                        IF i > 1
                        THEN [isnull |-> FALSE,
                              v |-> df[i].timestamp - df[i - 1].timestamp]
                        ELSE [isnull |-> TRUE, v |-> 0]]]
    IN  SubSeq(timed, 1, Len(timed) - 1)

calc_durations(df) ==
    LET timed == [i \in 1..Len(df) |->
                    [df[i] EXCEPT !.duration =
                        IF i < Len(df)
                        THEN [isnull |-> FALSE,
                              v |-> df[i + 1].timestamp - df[i].timestamp]
                        ELSE [isnull |-> TRUE, v |-> 0]]]
    IN  SubSeq(timed, 1, Len(timed) - 1)

\* analyzer.py:123: a comparison with NaN is False
IsNotNoise_above_only(row) ==
    ~row.duration.isnull /\ row.duration.v > MIN_DURATION_THRESHOLD

IsNotNoise(row) ==
    ~row.duration.isnull /\ row.duration.v >= MIN_DURATION_THRESHOLD

filter_noise(df) ==
    SelectSeq(df, IsNotNoise)

\* analyzer.py:127: Series.apply(map_activity_to_category) goes through the
\* activities in row order, each call on the map the previous one left
RECURSIVE map_all(_, _, _, _, _)
map_all(activities, cats, file, fault, answers) ==
    IF activities = <<>>
    THEN [cats |-> cats, file |-> file, categories |-> <<>>,
          prompts |-> <<>>, saves |-> 0]
    ELSE LET a    == Head(activities)
             m    == map_activity_to_category(
                         cats, file, fault, a,
                         IF a \in DOMAIN answers THEN answers[a] ELSE <<>>)
             rest == map_all(Tail(activities), m.cats, m.file, fault, answers)
         IN  [cats       |-> rest.cats,
              file       |-> rest.file,
              categories |-> <<m.ret>> \o rest.categories,
              prompts    |-> (IF m.prompted THEN <<a>> ELSE <<>>) \o rest.prompts,
              saves      |-> m.saves + rest.saves]

IsNotUnknown(row) ==
    row.category # UNKNOWN_CATEGORY

\* analyzer.py:130
remove_unknown_keeping_all(df) ==
    df

remove_unknown(df) ==
    SelectSeq(df, IsNotUnknown)

\* analyzer.py:133-135: groupby("category")["duration"].agg(['sum','count'])
group_sum(df, category) ==
    SumSeq([i \in 1..Len(df) |->
               IF df[i].category = category THEN df[i].duration.v ELSE 0])

group_count(df, category) ==
    Cardinality({i \in 1..Len(df) : df[i].category = category})

\* analyzer.py:136: sort_values('sum', ascending=False); the order of equal
\* sums is not determined, so every non-increasing order is possible
sorted_orders_ascending(df) ==
    LET groups == {df[i].category : i \in 1..Len(df)}
        n      == Cardinality(groups)
    IN  {o \in [1..n -> groups] :
            /\ \A i, j \in 1..n : i # j => o[i] # o[j]
            /\ \A i \in 1..n : i < n =>
                  group_sum(df, o[i]) <= group_sum(df, o[i + 1])}

sorted_orders(df) ==
    LET groups == {df[i].category : i \in 1..Len(df)}
        n      == Cardinality(groups)
    IN  {o \in [1..n -> groups] :
            /\ \A i, j \in 1..n : i # j => o[i] # o[j]
            /\ \A i \in 1..n : i < n =>
                  group_sum(df, o[i]) >= group_sum(df, o[i + 1])}

\* analyzer.py:139-148: a float is a num/den pair; a division by zero gives
\* NaN or inf, kept as den = 0
summarize_relative_to_largest(df, order) ==
    LET total_duration == IF order = <<>> THEN 0 ELSE group_sum(df, order[1])
    IN  [i \in 1..Len(order) |->
            [category   |-> order[i],
             sum        |-> group_sum(df, order[i]),
             count      |-> group_count(df, order[i]),
             minutes    |-> [num |-> group_sum(df, order[i]), den |-> 60],
             percentage |-> [num |-> group_sum(df, order[i]) * 100,
                             den |-> total_duration]]]

summarize_as_fraction(df, order) ==
    LET total_duration == SumSeq([i \in 1..Len(order) |-> group_sum(df, order[i])])
    IN  [i \in 1..Len(order) |->
            [category   |-> order[i],
             sum        |-> group_sum(df, order[i]),
             count      |-> group_count(df, order[i]),
             minutes    |-> [num |-> group_sum(df, order[i]), den |-> 60],
             percentage |-> [num |-> group_sum(df, order[i]),
                             den |-> total_duration]]]

summarize(df, order) ==
    LET total_duration == SumSeq([i \in 1..Len(order) |-> group_sum(df, order[i])])
    IN  [i \in 1..Len(order) |->
            [category   |-> order[i],
             sum        |-> group_sum(df, order[i]),
             count      |-> group_count(df, order[i]),
             minutes    |-> [num |-> group_sum(df, order[i]), den |-> 60],
             percentage |-> [num |-> group_sum(df, order[i]) * 100,
                             den |-> total_duration]]]

\* analyzer.py:203-213: analyze() prints the summary and calls
\* create_visualizations when process_data returned a summary with entries
analyze_charts(raised, summaries) ==
    ~raised /\ summaries # <<>>

\* analyzer.py:101-123: the frames up to the noise filter
pd_frames(file, day) ==
    LET csv == read_csv(file)
        df  == filter_by_date(csv.rows, day)
    IN  IF csv.raised
        THEN [raised |-> TRUE, empty |-> FALSE, timed |-> <<>>, kept |-> <<>>]
        ELSE IF df = <<>>
             THEN [raised |-> FALSE, empty |-> TRUE, timed |-> <<>>, kept |-> <<>>]
                  ELSE LET timed == calc_durations(df)
                  IN  [raised |-> FALSE, empty |-> FALSE,
                       timed  |-> timed, kept |-> filter_noise(timed)]

\* analyzer.py:126
pd_activities(kept) ==
    [i \in 1..Len(kept) |-> parse_title(kept[i]).label]

\* analyzer.py:126: apply lets the TypeError of parse_title through
pd_apply_raises(kept) ==
    \E i \in 1..Len(kept) : parse_title(kept[i]).raised

\* analyzer.py:126-130
pd_categorize(kept, cats, file, fault, answers) ==
    LET activities == pd_activities(kept)
        mapped     == map_all(activities, cats, file, fault, answers)
        labelled   == [i \in 1..Len(kept) |->
                         [kept[i] EXCEPT !.activity = activities[i],
                                         !.category = mapped.categories[i]]]
    IN  [cats |-> mapped.cats, file |-> mapped.file,
         prompts |-> mapped.prompts, saves |-> mapped.saves,
         df |-> remove_unknown(labelled)]

\* analyzer.py:99-150, from the frames and the categorized frame.
\* DataFrame.apply(axis=1) of a frame without rows gives an empty Series or,
\* in the pandas releases that probe the function with an empty row
\* (parse_title raises KeyError on it), a copy of the frame, whose assignment
\* to the column "activity" raises ValueError: reduces tells which.
\* setup.py admits both (pandas>=1.3.0).
process_data(frames, done, cats, cat_file, reduces, order) ==
    LET raised == \/ frames.raised
                  \/ (~frames.empty /\ frames.kept = <<>> /\ ~reduces)
                  \/ pd_apply_raises(frames.kept)
    IN  IF raised \/ frames.empty
        THEN [raised |-> raised, timed |-> frames.timed, df |-> <<>>,
              summaries |-> <<>>, cats |-> cats, file |-> cat_file,
              prompts |-> <<>>, saves |-> 0]
        ELSE [raised |-> FALSE, timed |-> frames.timed, df |-> done.df,
              summaries |-> summarize(done.df, order),
              cats |-> done.cats, file |-> done.file,
              prompts |-> done.prompts, saves |-> done.saves]

\* ------------------------------------------------------------------------
\* ActivityLogger: the methods, on the fields of the logger and the log file
\* ------------------------------------------------------------------------

\* None, for prev_info, for prev_mouse_pos and for prev_action_ts
NO_INFO ==
    [is_none |-> TRUE, app_name |-> <<>>, title |-> <<>>,
     has_timestamp |-> FALSE, timestamp |-> 0]

NO_MOUSE_POS ==
    [is_none |-> TRUE, pos |-> <<0, 0>>]

NO_ACTION_TS ==
    [is_none |-> TRUE, ts |-> 0]

\* models.py:8-12
WindowInfo(app_name, title) ==
    [is_none |-> FALSE, app_name |-> app_name, title |-> title,
     has_timestamp |-> FALSE, timestamp |-> 0]

WithTimestamp(info, timestamp) ==
    [info EXCEPT !.has_timestamp = TRUE, !.timestamp = timestamp]

\* logger.py:65-75: the header is written when the file does not exist; an
\* error is raised again. ok: the file can be opened for writing.
initialize_log_file_always(file, ok) ==
    IF ok
    THEN [file |-> [exists |-> TRUE, lines |-> <<HEADER_LINE>>], raised |-> FALSE]
    ELSE [file |-> file, raised |-> TRUE]

initialize_log_file(file, ok) ==
    IF ~file.exists
    THEN IF ok
         THEN [file |-> [exists |-> TRUE, lines |-> <<HEADER_LINE>>],
               raised |-> FALSE]
         ELSE [file |-> file, raised |-> TRUE]
    ELSE [file |-> file, raised |-> FALSE]

\* logger.py:54-63: the row is appended (mode "a" creates a missing file) and
\* prev_action_ts becomes the time t of the call; an error is logged and
\* swallowed. ok: the file can be opened for appending.
log_window_info_partial_write(file, prev_action_ts, info, t, ok) ==
    IF ok
    THEN [file |-> [exists |-> TRUE, lines |-> Append(file.lines, to_dict(info, t))],
          prev_action_ts |-> [is_none |-> FALSE, ts |-> t],
          appended |-> TRUE]
    ELSE [file |-> [exists |-> TRUE, lines |-> Append(file.lines, to_dict(info, t))],
          prev_action_ts |-> prev_action_ts, appended |-> FALSE]

log_window_info(file, prev_action_ts, info, t, ok) ==
    IF ok
    THEN [file |-> [exists |-> TRUE, lines |-> Append(file.lines, to_dict(info, t))],
          prev_action_ts |-> [is_none |-> FALSE, ts |-> t],
          appended |-> TRUE]
    ELSE [file |-> file, prev_action_ts |-> prev_action_ts, appended |-> FALSE]

\* logger.py:77-82
is_user_inactive(prev_mouse_pos, prev_action_ts, current_mouse_pos, current_time) ==
    /\ ~prev_mouse_pos.is_none
    /\ current_mouse_pos = prev_mouse_pos.pos
    /\ ~prev_action_ts.is_none
    /\ prev_action_ts.ts # 0
    /\ current_time - prev_action_ts.ts > INACTIVITY_THRESHOLD

\* logger.py:117-125, called at time t
pause_stamped_with_idle_time(file, prev_info, prev_action_ts, t, ok) ==
    IF ~prev_info.is_none /\ prev_info.app_name = PAUSE_APP
    THEN [file |-> file, prev_info |-> prev_info,
          prev_action_ts |-> prev_action_ts, appended |-> FALSE]
    ELSE LET pause_info == WithTimestamp(WindowInfo(PAUSE_APP, <<>>),
                                         t - prev_action_ts.ts)
             logged     == log_window_info(file, prev_action_ts, pause_info, t, ok)
         IN  [file |-> logged.file, prev_info |-> pause_info,
              prev_action_ts |-> logged.prev_action_ts,
              appended |-> logged.appended]

pause(file, prev_info, prev_action_ts, t, ok) ==
    IF ~prev_info.is_none /\ prev_info.app_name = PAUSE_APP
    THEN [file |-> file, prev_info |-> prev_info,
          prev_action_ts |-> prev_action_ts, appended |-> FALSE]
    ELSE LET pause_info == WithTimestamp(WindowInfo(PAUSE_APP, <<>>), t)
             logged     == log_window_info(file, prev_action_ts, pause_info, t, ok)
         IN  [file |-> logged.file, prev_info |-> pause_info,
              prev_action_ts |-> logged.prev_action_ts,
              appended |-> logged.appended]

\* logger.py:127-131, called at time t
exit_with_pause_marker(file, prev_action_ts, t, ok) ==
    log_window_info(file, prev_action_ts,
                    WithTimestamp(WindowInfo(PAUSE_APP, <<>>), t), t, ok)

exit(file, prev_action_ts, t, ok) ==
    log_window_info(file, prev_action_ts,
                    WithTimestamp(WindowInfo(EXIT_APP, <<>>), t), t, ok)

\* logger.py:104-106
IsNewWindow_after_the_first(prev_info, current_info) ==
    /\ ~current_info.is_none
    /\ ~prev_info.is_none
    /\ \/ current_info.app_name # prev_info.app_name
       \/ current_info.title # prev_info.title

IsNewWindow_every_poll(prev_info, current_info) ==
    ~current_info.is_none

IsNewWindow(prev_info, current_info) ==
    /\ ~current_info.is_none
    /\ \/ prev_info.is_none
       \/ current_info.app_name # prev_info.app_name
       \/ current_info.title # prev_info.title

\* logger.py:92-115: one iteration of the loop of run(), up to its sleep.
\* self: the fields and the file; current_time: the clock at line 94; t: the
\* clock when the row is written; mouse_raises: getMousePos() raises;
\* current_info: what get_window_info() returns (None when there is no
\* active window or the query raised).
poll_iteration(self, current_time, t, mouse_raises, current_mouse_pos, current_info, ok) ==
    IF mouse_raises
    THEN [file |-> self.file, prev_info |-> self.prev_info,
          prev_mouse_pos |-> self.prev_mouse_pos,
          prev_action_ts |-> self.prev_action_ts,
          path |-> "exception", attempted |-> FALSE, appended |-> FALSE]
    ELSE IF is_user_inactive(self.prev_mouse_pos, self.prev_action_ts,
                             current_mouse_pos, current_time)
    THEN LET paused == pause(self.file, self.prev_info, self.prev_action_ts, t, ok)
         IN  [file |-> paused.file, prev_info |-> paused.prev_info,
              prev_mouse_pos |-> self.prev_mouse_pos,
              prev_action_ts |-> paused.prev_action_ts,
              path |-> "inactive", attempted |-> FALSE,
              appended |-> paused.appended]
    ELSE IF IsNewWindow(self.prev_info, current_info)
    THEN LET stamped == WithTimestamp(current_info, current_time)
             logged  == log_window_info(self.file, self.prev_action_ts,
                                        stamped, t, ok)
         IN  [file |-> logged.file, prev_info |-> stamped,
              prev_mouse_pos |-> [is_none |-> FALSE, pos |-> current_mouse_pos],
              prev_action_ts |-> logged.prev_action_ts,
              path |-> "normal", attempted |-> TRUE,
              appended |-> logged.appended]
    ELSE [file |-> self.file, prev_info |-> self.prev_info,
          prev_mouse_pos |-> [is_none |-> FALSE, pos |-> current_mouse_pos],
          prev_action_ts |-> self.prev_action_ts,
          path |-> "normal", attempted |-> FALSE, appended |-> FALSE]

\* logger.py:96-99,111-115: the calls of time.sleep(self.log_interval) in an
\* iteration, by the path it takes. The inactive path sleeps at line 98 and
\* its continue skips the else clause of the try statement; the handler
\* sleeps at line 113; the else clause sleeps at line 115.
loop_sleeps_without_continue(path) ==
    CASE path = "inactive"  -> 2
      [] path = "exception" -> 1
      [] path = "normal"    -> 1

loop_sleeps(path) ==
    CASE path = "inactive"  -> 1
      [] path = "exception" -> 1
      [] path = "normal"    -> 1

\* ------------------------------------------------------------------------
\* Bounds and the inputs drawn from them
\* ------------------------------------------------------------------------

\* Most rows in a log handed to the analyzer
MaxLog == 3

\* The days of the log are 0..MaxDay
MaxDay == 1

Days ==
    0..MaxDay

\* Most lines of the log, header included, in a run of the logger
MaxLines == 4

\* Most tracker processes started on the log, one after the other
MaxRuns == 2

\* The clock when the first tracker process starts, and the last time modelled
StartTime == 1000

MaxTime == 2200

\* The --interval the tracker runs with
LogInterval == 300

\* What the clock may advance between the read of line 94 and the write of
\* a row, in seconds
WriteDelays ==
    {0, 1}

MousePositions ==
    {<<0, 0>>, <<7, 3>>}

TERMINAL ==
    <<"T","e","r","m","i","n","a","l">>

TITLE_ZSH ==
    <<"z","s","h">>

TITLE_EXAMPLE ==
    <<"h","t","t","p","s",":","/","/","e","x","a","m","p","l","e",".","c","o","m","/","p","a","t","h">>

EXAMPLE_COM ==
    <<"e","x","a","m","p","l","e",".","c","o","m">>

WORK ==
    <<"W","o","r","k">>

FUN ==
    <<"F","u","n">>

\* What the user may type at the prompt
Categories ==
    {WORK, FUN, UNKNOWN_CATEGORY}

\* The windows of the logs given to the analyzer: a browser on a URL, a
\* plain application, and a marker row, whose empty title is read as NaN
AnalyzerWindows ==
    { [app_name |-> GOOGLE_CHROME, title |-> TITLE_EXAMPLE],
      [app_name |-> TERMINAL,      title |-> TITLE_ZSH],
      [app_name |-> PAUSE_APP,     title |-> <<>>] }

\* Timestamps of day 0 that every window may have: they give durations at
\* and above the threshold, zero and negative ones, and two retained rows
\* in a log of three
AnalyzerTimes ==
    {0, 5, 10}

\* A timestamp of day 0 one second short of the threshold after the others
CloseTimes ==
    {Min(AnalyzerTimes \ {0}) + 9}

\* The timestamp of a window whose application name the platform gave as
\* the empty string
NamelessTimes ==
    {Min(AnalyzerTimes \ {0})}

\* One row on each later day
LaterTimes ==
    {d * SECONDS_PER_DAY + 2 : d \in 1..MaxDay}

AnalyzerRows ==
    {[kind |-> "row", app_name |-> w.app_name, title |-> w.title, timestamp |-> t] :
        w \in AnalyzerWindows, t \in AnalyzerTimes}
    \cup
    {[kind |-> "row", app_name |-> TERMINAL, title |-> TITLE_ZSH, timestamp |-> t] :
        t \in CloseTimes \cup LaterTimes}
    \cup
    {[kind |-> "row", app_name |-> <<>>, title |-> TITLE_ZSH, timestamp |-> t] :
        t \in NamelessTimes}

\* A file without a line: pd.read_csv raises EmptyDataError
EMPTY_FILE ==
    [exists |-> TRUE, lines |-> <<>>]

AnalyzerLogs ==
    {NO_FILE, EMPTY_FILE} \cup
    {[exists |-> TRUE, lines |-> <<HEADER_LINE>> \o rows] :
        rows \in UNION {[1..n -> AnalyzerRows] : n \in 0..MaxLog}}

\* What get_window_info() may return to the logger
LoggerWindows ==
    { WindowInfo(GOOGLE_CHROME, TITLE_EXAMPLE),
      WindowInfo(TERMINAL, TITLE_ZSH),
      NO_INFO }

\* The activity labels of those windows
Activities ==
    {EXAMPLE_COM, TERMINAL, UNKNOWN_CATEGORY}

\* The category files an analysis may start from
ONE_CATEGORY ==
    [a \in {TERMINAL} |-> WORK]

ONE_CATEGORY_FILE ==
    [state |-> "valid", content |-> ONE_CATEGORY]

CORRUPT_CATEGORY_FILE ==
    [state |-> "corrupt", content |-> EMPTY_DICT]

InitialCategoryFiles ==
    { NO_CATEGORY_FILE, ONE_CATEGORY_FILE, CORRUPT_CATEGORY_FILE }

\* ------------------------------------------------------------------------
\* State
\* ------------------------------------------------------------------------

VARIABLES
    log_file,        \* the CSV log: [exists, lines]
    app_categories,  \* ActivityAnalyzer.app_categories
    category_file,   \* the JSON category file: [state, content]
    result,          \* what the last analyzer operation did and returned
    parsed,          \* parse_title: its argument and its result
    prev_info,       \* ActivityLogger.prev_info
    prev_mouse_pos,  \* ActivityLogger.prev_mouse_pos
    prev_action_ts,  \* ActivityLogger.prev_action_ts
    now,             \* int(time.time())
    pc,              \* where the tracker process is
    runs,            \* how many tracker processes were started
    poll,            \* what the last iteration of the loop saw and did
    mouse_still_since \* the user: when the cursor was first read where it is

analyzerVars ==
    <<app_categories, category_file, result>>

loggerVars ==
    <<prev_info, prev_mouse_pos, prev_action_ts, now, pc, runs, poll,
      mouse_still_since>>

vars ==
    <<log_file, app_categories, category_file, result, parsed,
      prev_info, prev_mouse_pos, prev_action_ts, now, pc, runs, poll,
      mouse_still_since>>

NO_RESULT ==
    [op |-> "none", fault |-> "none", raised |-> FALSE, day |-> 0,
     arg |-> <<>>, ret |-> <<>>,
     prompts |-> <<>>, saves |-> 0, timed |-> <<>>, df |-> <<>>,
     summaries |-> <<>>, charts |-> FALSE]

NO_POLL ==
    [path |-> "none", window |-> NO_INFO, attempted |-> FALSE,
     appended |-> FALSE, sleeps |-> 0]

\* No tracker process
LoggerOff ==
    /\ prev_info = NO_INFO
    /\ prev_mouse_pos = NO_MOUSE_POS
    /\ prev_action_ts = NO_ACTION_TS
    /\ now = StartTime
    /\ pc = "off"
    /\ runs = 0
    /\ poll = NO_POLL
    /\ mouse_still_since = NO_ACTION_TS

\* No analyzer
AnalyzerOff ==
    /\ category_file = NO_CATEGORY_FILE
    /\ app_categories = EMPTY_DICT
    /\ result = NO_RESULT

NOT_PARSED ==
    [row |-> [app_name |-> NaN, title |-> NaN], called |-> FALSE,
     raised |-> FALSE, label |-> <<>>]

\* ------------------------------------------------------------------------
\* The analyzer: ActivityAnalyzer(log_file, category_file).process_data
\* ------------------------------------------------------------------------

InitAnalyzer ==
    /\ log_file \in AnalyzerLogs
    /\ category_file = ONE_CATEGORY_FILE
    /\ app_categories = _load_categories(category_file, "none")
    /\ result = NO_RESULT
    /\ parsed = NOT_PARSED
    /\ LoggerOff

\* The activities process_data prompts for
Unmapped(kept, cats) ==
    IF pd_apply_raises(kept) THEN {} ELSE Range(pd_activities(kept)) \ DOMAIN cats

\* analyzer.py:203-205: analyze() calls process_data once, on the analyzer
\* it was constructed with
ProcessData ==
    /\ result.op = "none"
    /\ \E day \in Days :
       \E frames \in {pd_frames(log_file, day)} :
       \E answers \in [Unmapped(frames.kept, app_categories) -> Categories] :
       \E fault \in (IF DOMAIN answers = {} THEN {"none"} ELSE FaultStates) :
       \E reduces \in (IF frames.kept = <<>> THEN BOOLEAN ELSE {TRUE}) :
       \E done \in {pd_categorize(frames.kept, app_categories, category_file,
                                  fault, answers)} :
       \E order \in sorted_orders(done.df) :
       \E out \in {process_data(frames, done, app_categories, category_file,
                                reduces, order)} :
           /\ app_categories' = out.cats
           /\ category_file' = out.file
           /\ result' = [NO_RESULT EXCEPT
                           !.op = "process", !.fault = fault,
                           !.raised = out.raised, !.day = day,
                           !.prompts = out.prompts, !.saves = out.saves,
                           !.timed = out.timed, !.df = out.df,
                           !.summaries = out.summaries,
                           !.charts = analyze_charts(out.raised, out.summaries)]
           /\ UNCHANGED <<log_file, parsed, loggerVars>>

NextAnalyzer ==
    ProcessData

SpecAnalyzer ==
    InitAnalyzer /\ [][NextAnalyzer]_vars

\* ------------------------------------------------------------------------
\* The category store over several runs of the analyzer
\* ------------------------------------------------------------------------

InitCategories ==
    /\ log_file = NO_FILE
    /\ category_file \in InitialCategoryFiles
    /\ \E fault \in FaultStates :
         /\ app_categories = _load_categories(category_file, fault)
         /\ result = [NO_RESULT EXCEPT !.op = "load", !.fault = fault]
    /\ parsed = NOT_PARSED
    /\ LoggerOff

\* analyzer.py:30-40: a later run constructs the analyzer again
NewAnalyzer ==
    \E fault \in FaultStates :
        /\ app_categories' = _load_categories(category_file, fault)
        /\ result' = [NO_RESULT EXCEPT !.op = "load", !.fault = fault]
        /\ UNCHANGED <<log_file, category_file, parsed, loggerVars>>

\* One call of map_activity_to_category
MapActivityToCategory ==
    \E activity \in Activities :
    \E answer \in (IF activity \in DOMAIN app_categories THEN {<<>>} ELSE Categories) :
    \E fault \in (IF activity \in DOMAIN app_categories THEN {"none"} ELSE FaultStates) :
    \E m \in {map_activity_to_category(app_categories, category_file, fault,
                                       activity, answer)} :
        /\ app_categories' = m.cats
        /\ category_file' = m.file
        /\ result' = [NO_RESULT EXCEPT
                        !.op = "map", !.fault = fault, !.arg = activity,
                        !.ret = m.ret, !.saves = m.saves,
                        !.prompts = IF m.prompted THEN <<activity>> ELSE <<>>]
        /\ UNCHANGED <<log_file, parsed, loggerVars>>

NextCategories ==
    \/ NewAnalyzer
    \/ MapActivityToCategory

SpecCategories ==
    InitCategories /\ [][NextCategories]_vars

\* ------------------------------------------------------------------------
\* The classifier: parse_title on one row
\* ------------------------------------------------------------------------

CHROME_BETA ==
    GOOGLE_CHROME \o <<" ","B","e","t","a">>

CHROME ==
    <<"C","h","r","o","m","e">>

CODE_INSIDERS ==
    VISUAL_STUDIO_CODE \o <<" ","-"," ","I","n","s","i","d","e","r","s">>

\* An application name with the name of the editor before that of the browser
CODE_IN_CHROME ==
    VISUAL_STUDIO_CODE \o <<" ","-"," ">> \o GOOGLE_CHROME

ParseApps ==
    {GOOGLE_CHROME, CHROME_BETA, CHROME, VISUAL_STUDIO_CODE, CODE_INSIDERS,
     CODE_IN_CHROME, TERMINAL, PAUSE_APP}

URL_A ==
    <<"h","t","t","p","s",":","/","/","a",".","i","o">>

ParseTitles ==
    { TITLE_EXAMPLE,
      TITLE_ZSH,
      URL_A,
      <<"D","o","c","s"," ","-"," ","h","t","t","p",":","/","/","a",".","i","o">>,
      <<"x"," ">> \o URL_A \o <<"/","p"," ","h","t","t","p",":","/","/","b",".","i","o">>,
      URL_A \o <<"?","q">>,
      URL_A \o <<"#","f">>,
      URL_A \o <<"\t","x">>,
      <<"h","t","t","p","s",":","/","/","[","a","/","p">>,
      <<"h","t","t","p","s",":","/","/">>,
      <<"h","t","t","p","s",":","/","/","u","@","a",".","i","o",":","8","0","/","p">>,
      <<"h","t","t","p",":","/","a">>,
      <<"a","h","t","t","p","s",":","/","/","b",".","c">>,
      <<"H","T","T","P","S",":","/","/","A",".","I","O">>,
      <<"N","e","w"," ","T","a","b">>,
      <<"a"," ","-"," ">>,
      <<"a"," ","-"," ","-"," ","b">>,
      <<"I","n","b","o","x"," ","-"," ","M","a","i","l"," ","-"," ">> \o GOOGLE_CHROME,
      <<"m","a","i","n",".","p","y"," ","-"," ","p","r","o","j"," ","-"," ">> \o VISUAL_STUDIO_CODE }

ParseRows ==
    {[app_name |-> a, title |-> c] :
        a \in {Str(t) : t \in ParseApps} \cup {NaN},
        c \in {Str(t) : t \in ParseTitles} \cup {NaN}}

InitParse ==
    /\ log_file = NO_FILE
    /\ AnalyzerOff
    /\ LoggerOff
    /\ parsed \in {[NOT_PARSED EXCEPT !.row = r] : r \in ParseRows}

ParseTitle ==
    /\ ~parsed.called
    /\ parsed' = [parsed EXCEPT !.called = TRUE,
                                !.raised = parse_title(parsed.row).raised,
                                !.label = parse_title(parsed.row).label]
    /\ UNCHANGED <<log_file, analyzerVars, loggerVars>>

NextParse ==
    ParseTitle

SpecParse ==
    InitParse /\ [][NextParse]_vars

\* ------------------------------------------------------------------------
\* The tracker: track.py __main__ and ActivityLogger.run
\* ------------------------------------------------------------------------

Init ==
    /\ log_file = NO_FILE
    /\ AnalyzerOff
    /\ parsed = NOT_PARSED
    /\ LoggerOff

\* track.py:148-152: a tracker process starts: the logger is constructed
\* (logger.py:26-39) and exit() is registered with atexit
Start ==
    /\ pc \in {"off", "halted"}
    /\ runs < MaxRuns
    /\ runs' = runs + 1
    /\ prev_info' = NO_INFO
    /\ prev_mouse_pos' = NO_MOUSE_POS
    /\ prev_action_ts' = NO_ACTION_TS
    /\ pc' = "new"
    /\ poll' = NO_POLL
    /\ mouse_still_since' = NO_ACTION_TS
    /\ UNCHANGED <<log_file, now, analyzerVars, parsed>>

\* logger.py:84-89: run() up to its loop. An error of initialize_log_file or
\* of getMousePos() leaves run(); the process ends and atexit calls exit().
Run ==
    /\ pc = "new"
    /\ \E ok \in BOOLEAN, mouse_raises \in BOOLEAN, mouse \in MousePositions,
          exit_ok \in BOOLEAN :
       \E init \in {initialize_log_file(log_file, ok)} :
         IF init.raised \/ mouse_raises
         THEN \E left \in {exit(init.file, prev_action_ts, now, exit_ok)} :
                /\ Len(left.file.lines) <= MaxLines
                /\ log_file' = left.file
                /\ prev_action_ts' = left.prev_action_ts
                /\ pc' = "halted"
                /\ UNCHANGED <<prev_mouse_pos, mouse_still_since>>
         ELSE /\ log_file' = init.file
              /\ prev_mouse_pos' = [is_none |-> FALSE, pos |-> mouse]
              /\ mouse_still_since' = [is_none |-> FALSE, ts |-> now]
              /\ pc' = "poll"
              /\ UNCHANGED prev_action_ts
    /\ poll' = NO_POLL
    /\ UNCHANGED <<prev_info, now, runs, analyzerVars, parsed>>

\* logger.py:92-115: one iteration of the loop, up to its sleep. The clock
\* is read at line 94 and again when a row is built and written.
Poll ==
    /\ pc = "poll"
    /\ \E mouse_raises \in BOOLEAN :
       \E mouse \in (IF mouse_raises THEN {<<0, 0>>} ELSE MousePositions) :
       \E window \in (IF mouse_raises THEN {NO_INFO} ELSE LoggerWindows) :
       \E ok \in (IF mouse_raises THEN {TRUE} ELSE BOOLEAN) :
       \E delay \in WriteDelays :
       \E out \in {poll_iteration(
                      [file |-> log_file, prev_info |-> prev_info,
                       prev_mouse_pos |-> prev_mouse_pos,
                       prev_action_ts |-> prev_action_ts],
                      now, now + delay, mouse_raises, mouse, window, ok)} :
         /\ Len(out.file.lines) <= MaxLines
         /\ (delay = 0 \/ out.appended)
         /\ log_file' = out.file
         /\ prev_info' = out.prev_info
         /\ prev_mouse_pos' = out.prev_mouse_pos
         /\ prev_action_ts' = out.prev_action_ts
         /\ now' = now + delay
         /\ mouse_still_since' =
               IF mouse_raises \/ mouse = prev_mouse_pos.pos
               THEN mouse_still_since
               ELSE [is_none |-> FALSE, ts |-> now]
         /\ poll' = [path |-> out.path, window |-> window,
                     attempted |-> out.attempted, appended |-> out.appended,
                     sleeps |-> loop_sleeps(out.path)]
    /\ pc' = "sleep"
    /\ UNCHANGED <<runs, analyzerVars, parsed>>

\* logger.py:98,113,115: time.sleep(self.log_interval)
Sleep ==
    /\ pc = "sleep"
    /\ now + poll.sleeps * LogInterval <= MaxTime
    /\ now' = now + poll.sleeps * LogInterval
    /\ pc' = "poll"
    /\ UNCHANGED <<log_file, prev_info, prev_mouse_pos, prev_action_ts,
                   runs, analyzerVars, parsed, mouse_still_since, poll>>

\* track.py:151-153: KeyboardInterrupt ends run(); the process ends and
\* atexit calls exit()
Interrupt ==
    /\ pc \in {"poll", "sleep"}
    /\ \E ok \in BOOLEAN :
       \E left \in {exit(log_file, prev_action_ts, now, ok)} :
         /\ Len(left.file.lines) <= MaxLines
         /\ log_file' = left.file
         /\ prev_action_ts' = left.prev_action_ts
    /\ pc' = "halted"
    /\ poll' = NO_POLL
    /\ UNCHANGED <<prev_info, prev_mouse_pos, now, runs, analyzerVars, parsed,
                   mouse_still_since>>

Next ==
    \/ Start
    \/ Run
    \/ Poll
    \/ Sleep
    \/ Interrupt

Spec ==
    Init /\ [][Next]_vars

\* ------------------------------------------------------------------------
\* Properties of process_data
\* ------------------------------------------------------------------------

\* process_data was called and returned
Processed ==
    result.op = "process" /\ ~result.raised

\* The records of the log, numbered from 0 as read_csv numbers them
LogRecord(k) ==
    log_file.lines[k + 2]

\* The records of the target day
DayRecords ==
    IF log_file.exists
    THEN {k \in 0..(Len(log_file.lines) - 2) :
             date_of(LogRecord(k).timestamp) = result.day}
    ELSE {}

LastOfDay(k) ==
    \A j \in DayRecords : j <= k

NextOfDay(k) ==
    Min({j \in DayRecords : j > k})

SummarySums ==
    SumSeq([i \in 1..Len(result.summaries) |-> result.summaries[i].sum])

SummaryCounts ==
    SumSeq([i \in 1..Len(result.summaries) |-> result.summaries[i].count])

\* The sum of the percentages is PercentageNum / PercentageDen: all entries
\* have the same denominator
PercentageNum ==
    SumSeq([i \in 1..Len(result.summaries) |->
               result.summaries[i].percentage.num])

PercentageDen ==
    IF result.summaries = <<>> THEN 1 ELSE result.summaries[1].percentage.den

SameDenominator ==
    \A i \in 1..Len(result.summaries) :
        result.summaries[i].percentage.den = PercentageDen

\* | sum of the percentages - 100 | <= 0.01
SumsTo100WithinTolerance ==
    /\ SameDenominator
    /\ PercentageDen > 0
    /\ 100 * (PercentageNum - 100 * PercentageDen) <= PercentageDen
    /\ 100 * (100 * PercentageDen - PercentageNum) <= PercentageDen

\* C1: the records process_data gives a duration are the records of the
\* target day but the last, each with the timestamp of the next record of
\* that day minus its own; the summary is made of such records only, so the
\* last record of the day is in no summary entry
C1_SuccessiveDifferences ==
    Processed =>
        /\ {result.timed[i].idx : i \in 1..Len(result.timed)}
              = {k \in DayRecords : ~LastOfDay(k)}
        /\ \A i \in 1..Len(result.timed) :
              /\ ~result.timed[i].duration.isnull
              /\ result.timed[i].duration.v =
                    LogRecord(NextOfDay(result.timed[i].idx)).timestamp
                    - LogRecord(result.timed[i].idx).timestamp
        /\ \A i \in 1..Len(result.df) :
              /\ ~LastOfDay(result.df[i].idx)
              /\ \E j \in 1..Len(result.timed) :
                    /\ result.timed[j].idx = result.df[i].idx
                    /\ result.timed[j].duration = result.df[i].duration
        /\ SummaryCounts = Len(result.df)
        /\ SummarySums = SumSeq([i \in 1..Len(result.df) |-> result.df[i].duration.v])

\* A summary of a record whose successor within the day is not the next
\* line of the log, from a day whose last record stays out
C1_Witness ==
    /\ Processed
    /\ result.summaries # <<>>
    /\ \E i \in 1..Len(result.df) :
          NextOfDay(result.df[i].idx) # result.df[i].idx + 1
    /\ Cardinality(DayRecords) = Len(result.df) + 1

\* C2: when a record remains after the drop of the last row, the noise
\* filter and the removal of Unknown, the summary is not empty, the sums of
\* its entries add up to the denominator of the percentages, and the
\* percentages add up to 100
C2_PercentagesSumTo100 ==
    (Processed /\ result.df # <<>>) =>
        /\ result.summaries # <<>>
        /\ SameDenominator
        /\ PercentageDen > 0
        /\ SummarySums = PercentageDen
        /\ PercentageNum = 100 * PercentageDen

\* Two categories with percentages that are no finite decimals
C2_Witness ==
    /\ Processed
    /\ Len(result.summaries) = 2
    /\ result.summaries[1].sum > result.summaries[2].sum
    /\ (result.summaries[1].percentage.num * 100)
          % result.summaries[1].percentage.den # 0

AllNoise ==
    /\ Cardinality(DayRecords) >= 2
    /\ \A k \in DayRecords :
          ~LastOfDay(k) =>
             LogRecord(NextOfDay(k)).timestamp - LogRecord(k).timestamp
                < MIN_DURATION_THRESHOLD

\* C4: on a day whose durations are all below MIN_DURATION_THRESHOLD,
\* process_data does not raise, returns no summary entry and does not prompt
C4_AllNoiseEmptySummary ==
    (result.op = "process" /\ AllNoise) =>
        /\ ~result.raised
        /\ result.summaries = <<>>
        /\ result.prompts = <<>>

\* An all-noise day on which process_data raised
C4_Witness ==
    /\ result.op = "process"
    /\ AllNoise
    /\ result.raised
    /\ result.timed # <<>>

\* ------------------------------------------------------------------------
\* Properties of the category store
\* ------------------------------------------------------------------------

\* C5: a call of map_activity_to_category for an activity that is a key of
\* the map returns the stored category, does not prompt, leaves the map as
\* it is and does not write the category file; after any call the activity
\* is a key with the category returned; and an analyzer that reads a saved
\* file starts with the map that file holds
C5_KnownActivityNoPrompt ==
    [][ /\ (result'.op = "map" /\ result'.arg \in DOMAIN app_categories) =>
              /\ result'.ret = app_categories[result'.arg]
              /\ result'.prompts = <<>>
              /\ result'.saves = 0
              /\ app_categories' = app_categories
              /\ category_file' = category_file
        /\ result'.op = "map" =>
              /\ result'.arg \in DOMAIN app_categories'
              /\ app_categories'[result'.arg] = result'.ret
        /\ (result'.op = "load" /\ result'.fault = "none"
                /\ category_file.state = "valid") =>
              app_categories' = category_file.content
      ]_vars

\* A call for an activity whose stored category is Unknown and whose save
\* had failed: it is answered from the map, without a prompt or a save
C5_Witness ==
    /\ result.op = "map"
    /\ result.prompts = <<>>
    /\ result.saves = 0
    /\ result.ret = UNKNOWN_CATEGORY
    /\ result.arg \in DOMAIN app_categories
    /\ (category_file.state = "valid" => result.arg \notin DOMAIN category_file.content)

\* C7: a call of map_activity_to_category keeps every key of the map with
\* its category and adds at most the activity asked for, and that only when
\* it was no key
C7_MapOnlyGrows ==
    [][ result'.op = "map" =>
           /\ \A a \in DOMAIN app_categories :
                 /\ a \in DOMAIN app_categories'
                 /\ app_categories'[a] = app_categories[a]
           /\ (DOMAIN app_categories') \ (DOMAIN app_categories)
                 \subseteq {result'.arg} \ (DOMAIN app_categories)
      ]_vars

\* A call that added a key to a map that had two
C7_Witness ==
    /\ result.op = "map"
    /\ result.prompts # <<>>
    /\ Cardinality(DOMAIN app_categories) = 3

\* ------------------------------------------------------------------------
\* Properties of parse_title
\* ------------------------------------------------------------------------

\* parse_title was called on a row of a known browser with a title
ParsedBrowserTitle ==
    /\ parsed.called
    /\ ~parsed.row.title.isnull
    /\ ~parsed.row.app_name.isnull
    /\ \E i \in 1..Len(parsed.row.app_name.text) :
          StartsWithAt(parsed.row.app_name.text, i, GOOGLE_CHROME)

\* A URL starts at position i of t, its network location at position i + n
IsUrlStart(t, i, n) ==
    \/ n = 7 /\ StartsWithAt(t, i, <<"h","t","t","p",":","/","/">>)
    \/ n = 8 /\ StartsWithAt(t, i, <<"h","t","t","p","s",":","/","/">>)

UrlStarts(t) ==
    {i \in 1..Len(t) : \E n \in {7, 8} : IsUrlStart(t, i, n)}

\* What ends the network location of a URL in a title
NetlocStops ==
    {"/", "?", "#", " ", "\t"}

\* label is the network location of the first URL of t: the longest text
\* after its "//" with none of "/", "?", "#" and no whitespace
IsNetlocOfFirstUrl(t, label) ==
    \E i \in UrlStarts(t), n \in {7, 8} :
        /\ IsUrlStart(t, i, n)
        /\ \A j \in UrlStarts(t) : i <= j
        /\ StartsWithAt(t, i + n, label)
        /\ \A k \in 1..Len(label) : label[k] \notin NetlocStops
        /\ (i + n + Len(label) <= Len(t) => t[i + n + Len(label)] \in NetlocStops)

\* urlsplit rejects a network location with one square bracket and not
\* the other
IsRejectedNetloc(label) ==
    (\E k \in 1..Len(label) : label[k] = "[")
        # (\E k \in 1..Len(label) : label[k] = "]")

\* The label of a browser title without a URL: "Chrome - " and an end of
\* the title
IsFallbackLabel(t, label) ==
    /\ StartsWithAt(label, 1, CHROME_PREFIX)
    /\ Len(label) - Len(CHROME_PREFIX) <= Len(t)
    /\ \A k \in 1..(Len(label) - Len(CHROME_PREFIX)) :
          label[Len(CHROME_PREFIX) + k]
             = t[Len(t) - (Len(label) - Len(CHROME_PREFIX)) + k]

\* C6 as stated: for a browser title with a URL parse_title returns the
\* network location of the first URL, for one without a URL a fallback label
C6_DomainOfFirstUrl ==
    ParsedBrowserTitle =>
        IF UrlStarts(parsed.row.title.text) # {}
        THEN IsNetlocOfFirstUrl(parsed.row.title.text, parsed.label)
        ELSE IsFallbackLabel(parsed.row.title.text, parsed.label)

\* C6: for a browser title with a URL parse_title returns the network
\* location of the first URL, or "Unknown URL" when urlparse rejects that
\* URL; for a title without a URL it returns a fallback label
C6_DomainOfFirstUrlUnlessRejected ==
    ParsedBrowserTitle =>
        IF UrlStarts(parsed.row.title.text) # {}
        THEN \/ /\ IsNetlocOfFirstUrl(parsed.row.title.text, parsed.label)
                /\ ~IsRejectedNetloc(parsed.label)
             \/ /\ parsed.label = UNKNOWN_URL
                /\ \E i \in 1..Len(parsed.row.title.text) :
                   \E j \in i..Len(parsed.row.title.text) :
                   \E netloc \in {SubSeq(parsed.row.title.text, i, j)} :
                      /\ IsNetlocOfFirstUrl(parsed.row.title.text, netloc)
                      /\ IsRejectedNetloc(netloc)
        ELSE IsFallbackLabel(parsed.row.title.text, parsed.label)

\* A title with text before its first URL, a path and a second URL after it
C6_Witness ==
    /\ ParsedBrowserTitle
    /\ Cardinality(UrlStarts(parsed.row.title.text)) = 2
    /\ 1 \notin UrlStarts(parsed.row.title.text)
    /\ parsed.label = <<"a",".","i","o">>

\* ------------------------------------------------------------------------
\* Properties of the tracker
\* ------------------------------------------------------------------------

\* The step is one iteration of the poll loop
PollStep ==
    pc = "poll" /\ pc' = "sleep"

\* The iteration did not judge the user inactive, obtained the active
\* window, and no window is recorded or the recorded one differs from it
WindowChanged ==
    /\ poll'.path = "normal"
    /\ ~poll'.window.is_none
    /\ \/ prev_info.is_none
       \/ poll'.window.app_name # prev_info.app_name
       \/ poll'.window.title # prev_info.title

\* The row of the window the iteration saw
WindowRow ==
    [kind |-> "row", app_name |-> poll'.window.app_name,
     title |-> poll'.window.title, timestamp |-> now]

WindowRowAppended ==
    /\ ~poll'.window.is_none
    /\ log_file'.lines = Append(log_file.lines, WindowRow)

NothingAppended ==
    log_file' = log_file

PauseRowAppended ==
    /\ Len(log_file'.lines) = Len(log_file.lines) + 1
    /\ SubSeq(log_file'.lines, 1, Len(log_file.lines)) = log_file.lines
    /\ log_file'.lines[Len(log_file'.lines)].app_name = PAUSE_APP

\* C8 as stated: an iteration appends the window row exactly when the user
\* is not judged inactive, a window was obtained and it is new; an iteration
\* with the window unchanged or with no window appends nothing and leaves
\* prev_info unchanged
C8_RowExactlyOnChange ==
    [][ PollStep =>
          /\ WindowRowAppended <=> WindowChanged
          /\ (poll'.window.is_none
                \/ (~prev_info.is_none
                      /\ poll'.window.app_name = prev_info.app_name
                      /\ poll'.window.title = prev_info.title)) =>
                (NothingAppended /\ prev_info' = prev_info)
      ]_vars

\* C8: an iteration tries to append the window row, and records the window
\* in prev_info, exactly when the user is not judged inactive, a window was
\* obtained and it is new; the row is in the log when the append succeeds and
\* nothing is when it fails. An iteration that does not judge the user
\* inactive and has the window unchanged or no window appends nothing and
\* leaves prev_info unchanged. An iteration that judges the user inactive
\* appends no window row: nothing or a _pause marker.
C8_RowOnChangeUnlessAppendFails ==
    [][ PollStep =>
          /\ WindowChanged =>
                /\ prev_info' = WithTimestamp(poll'.window, now)
                /\ IF poll'.appended THEN WindowRowAppended ELSE NothingAppended
          /\ (poll'.path # "inactive" /\ ~WindowChanged) =>
                (NothingAppended /\ prev_info' = prev_info)
          /\ poll'.path = "inactive" =>
                \/ NothingAppended /\ prev_info'.app_name = PAUSE_APP
                \/ PauseRowAppended /\ prev_info'.app_name = PAUSE_APP
      ]_vars

\* An iteration that saw another window than the recorded one and appended
\* its row after the row of the recorded one
C8_Witness ==
    /\ pc = "sleep"
    /\ poll.path = "normal"
    /\ poll.appended
    /\ Len(log_file.lines) >= 3
    /\ log_file.lines[Len(log_file.lines)].app_name = poll.window.app_name
    /\ log_file.lines[Len(log_file.lines)].timestamp = prev_info.timestamp
    /\ log_file.lines[Len(log_file.lines) - 1].app_name
          \notin {poll.window.app_name, PAUSE_APP, EXIT_APP}
    /\ log_file.lines[Len(log_file.lines) - 1].kind = "row"

\* C9: every step of the tracker, over any number of runs on the same
\* file, keeps the content of the log as a prefix of the new content and
\* never removes the file; the header is written only as the first line of
\* a file that did not exist
C9_AppendOnly ==
    [][ /\ log_file.exists => log_file'.exists
        /\ Len(log_file.lines) <= Len(log_file'.lines)
        /\ SubSeq(log_file'.lines, 1, Len(log_file.lines)) = log_file.lines
        /\ \A i \in (Len(log_file.lines) + 1)..Len(log_file'.lines) :
              log_file'.lines[i] = HEADER_LINE => (~log_file.exists /\ i = 1)
      ]_vars

\* A log with the rows of two runs: a row after an _exit marker, under the
\* one header
C9_Witness ==
    /\ log_file.exists
    /\ Len(log_file.lines) >= 4
    /\ log_file.lines[1] = HEADER_LINE
    /\ \A i \in 2..Len(log_file.lines) : log_file.lines[i] # HEADER_LINE
    /\ \E i \in 2..(Len(log_file.lines) - 1) :
          /\ log_file.lines[i].app_name = EXIT_APP
          /\ log_file.lines[i + 1].app_name \notin {EXIT_APP, PAUSE_APP}

RowIndices ==
    {i \in 1..Len(log_file.lines) : log_file.lines[i].kind = "row"}

\* C10: the timestamps of the rows of the log, markers included, do not
\* decrease in row order
C10_TimestampsOrdered ==
    \A i, j \in RowIndices :
        i < j => log_file.lines[i].timestamp <= log_file.lines[j].timestamp

\* A window row, then a _pause marker stamped later, then an _exit marker
C10_Witness ==
    \E i, j, k \in RowIndices :
        /\ i < j /\ j < k
        /\ log_file.lines[i].app_name \notin {PAUSE_APP, EXIT_APP}
        /\ log_file.lines[j].app_name = PAUSE_APP
        /\ log_file.lines[k].app_name = EXIT_APP
        /\ log_file.lines[i].timestamp < log_file.lines[j].timestamp

\* The step is exit(), called when the tracker process ends
ExitStep ==
    /\ pc' = "halted"
    /\ poll' = NO_POLL
    /\ \/ NothingAppended
       \/ /\ log_file'.lines = Append(log_file.lines, log_file'.lines[Len(log_file'.lines)])
          /\ log_file'.lines[Len(log_file'.lines)].app_name = EXIT_APP

\* C11: an iteration of the poll loop in which the mouse query raises
\* changes nothing and goes to the sleep, like every iteration; an append
\* that fails leaves the log as it was; after the sleep comes the next
\* iteration; the loop is left only when the process ends, by exit()
C11_ErrorsSwallowed ==
    [][ /\ (pc = "poll" /\ pc' # "poll") => (PollStep \/ ExitStep)
        /\ (PollStep /\ poll'.path = "exception") =>
              UNCHANGED <<log_file, prev_info, prev_mouse_pos, prev_action_ts>>
        /\ (PollStep /\ ~poll'.appended) => NothingAppended
        /\ (pc = "sleep" /\ pc' # "sleep") => (pc' = "poll" \/ ExitStep)
      ]_vars

\* An iteration whose append failed, on a log that has rows
C11_Witness ==
    /\ pc = "sleep"
    /\ poll.path = "normal"
    /\ poll.attempted
    /\ ~poll.appended
    /\ Len(log_file.lines) >= 2
    /\ log_file.lines[Len(log_file.lines)].app_name # poll.window.app_name

\* The log is missing or cannot be read as a CSV file
LogUnreadable ==
    ~log_file.exists \/ log_file.lines = <<>>

\* C12: process_data on a log that is missing or unreadable raises: it
\* returns no summary, prompts for no category, saves nothing and leaves the
\* category map and the category file as they were
C12_MissingLogReraised ==
    [][ (result.op = "none" /\ result'.op = "process" /\ LogUnreadable) =>
           /\ result'.raised
           /\ result'.summaries = <<>>
           /\ result'.df = <<>>
           /\ result'.prompts = <<>>
           /\ result'.saves = 0
           /\ UNCHANGED <<app_categories, category_file>>
      ]_vars

\* process_data raised on a missing log
C12_Witness ==
    /\ result.op = "process"
    /\ ~log_file.exists
    /\ result.raised
    /\ app_categories # EMPTY_DICT

\* The tracker process ends in this step
ShutdownStep ==
    pc # "halted" /\ pc' = "halted"

\* The lines of the log before exit() is called in a step that ends the
\* process: run() may just have written the header of a new file
LinesBeforeExit ==
    {log_file.lines} \cup
    (IF pc = "new" /\ ~log_file.exists THEN {<<HEADER_LINE>>} ELSE {})

\* The marker row of an application name, written at time t
MarkerRow(app_name, t) ==
    [kind |-> "row", app_name |-> app_name, title |-> <<>>, timestamp |-> t]

\* C13 as stated: when the tracker process ends, exactly one _exit row is
\* appended and it is the last row of the log
C13_ExitMarkerAlwaysLast ==
    [][ ShutdownStep =>
           \E lines \in LinesBeforeExit :
               log_file'.lines = Append(lines, MarkerRow(EXIT_APP, now))
      ]_vars

\* C13: when the tracker process ends, exit() appends one _exit row as the
\* last row of the log, or nothing at all when the append fails; an
\* iteration that judges the user inactive and appends a row appends one
\* _pause row of the same form, stamped with the time of the write
C13_ExitMarkerLastUnlessAppendFails ==
    [][ /\ ShutdownStep =>
              \E lines \in LinesBeforeExit :
                  \/ log_file'.lines = Append(lines, MarkerRow(EXIT_APP, now))
                  \/ log_file'.lines = lines
        /\ (PollStep /\ poll'.path = "inactive" /\ poll'.appended) =>
              log_file'.lines = Append(log_file.lines, MarkerRow(PAUSE_APP, now'))
      ]_vars

\* A tracker that ended after a pause: the _exit row is the last row, after
\* the _pause row
C13_Witness ==
    /\ pc = "halted"
    /\ Len(log_file.lines) >= 4
    /\ log_file.lines[Len(log_file.lines)].app_name = EXIT_APP
    /\ log_file.lines[Len(log_file.lines) - 1].app_name = PAUSE_APP
    /\ \A i \in 1..(Len(log_file.lines) - 1) : log_file.lines[i].app_name # EXIT_APP

\* C14: for a target day without a record in a log that can be read,
\* process_data returns an empty frame and an empty summary, does not
\* raise, prompts for nothing and saves nothing, and analyze() draws no chart
C14_EmptyDayEmptySummary ==
    (result.op = "process" /\ ~LogUnreadable /\ DayRecords = {}) =>
        /\ ~result.raised
        /\ result.df = <<>>
        /\ result.timed = <<>>
        /\ result.summaries = <<>>
        /\ result.prompts = <<>>
        /\ result.saves = 0
        /\ ~result.charts

\* An analysis of a day without a record, of a log with records of
\* another day that would make a summary
C14_Witness ==
    /\ result.op = "process"
    /\ ~LogUnreadable
    /\ DayRecords = {}
    /\ ~result.raised
    /\ \E k \in 0..(Len(log_file.lines) - 3) :
          LogRecord(k + 1).timestamp - LogRecord(k).timestamp >= MIN_DURATION_THRESHOLD

\* The records with a duration that process_data classified: those of at
\* least the threshold
ClassifiedRecords ==
    {i \in 1..Len(result.timed) :
        result.timed[i].duration.v >= MIN_DURATION_THRESHOLD}

\* C15: every record of the summarized frame has a duration of at least
\* MIN_DURATION_THRESHOLD; a record below it, zero or negative included, is
\* not in the frame and no category is asked for on its account; a record
\* of at least the threshold, the threshold itself included, is in the frame
\* unless its category is Unknown
C15_NoiseDiscarded ==
    Processed =>
        /\ \A i \in 1..Len(result.df) :
              result.df[i].duration.v >= MIN_DURATION_THRESHOLD
        /\ \A i \in 1..Len(result.timed) :
              (i \notin ClassifiedRecords) =>
                  \A j \in 1..Len(result.df) : result.df[j].idx # result.timed[i].idx
        /\ \A k \in 1..Len(result.prompts) :
              \E i \in ClassifiedRecords :
                  parse_title(result.timed[i]).label = result.prompts[k]
        /\ \A i \in ClassifiedRecords :
              \/ \E j \in 1..Len(result.df) : result.df[j].idx = result.timed[i].idx
              \/ /\ parse_title(result.timed[i]).label \in DOMAIN app_categories
                 /\ app_categories[parse_title(result.timed[i]).label] = UNKNOWN_CATEGORY

\* A summary of a record of exactly the threshold, of a day with a record
\* of no duration at all whose activity was never asked about
C15_Witness ==
    /\ Processed
    /\ result.summaries # <<>>
    /\ \E i \in 1..Len(result.df) :
          result.df[i].duration.v = MIN_DURATION_THRESHOLD
    /\ \E i \in 1..Len(result.timed) :
          /\ result.timed[i].duration.v <= 0
          /\ parse_title(result.timed[i]).label \notin DOMAIN app_categories

\* The retained records of a category, and the sum of the durations of a
\* set of retained records
RetainedOf(category) ==
    {i \in 1..Len(result.df) : result.df[i].category = category}

RECURSIVE DurationOver(_)
DurationOver(S) ==
    IF S = {} THEN 0
    ELSE LET i == CHOOSE x \in S : TRUE
         IN  result.df[i].duration.v + DurationOver(S \ {i})

\* C16: the summary has one entry for each category of the retained records
\* and no other; an entry's total is the sum of the durations of its
\* category's records (reported in minutes) and its count their number; the
\* counts add up to the number of retained records, the totals to their
\* whole duration, and the entries are in non-increasing order of total
C16_OneEntryPerCategory ==
    Processed =>
        /\ {result.summaries[k].category : k \in 1..Len(result.summaries)}
              = {result.df[i].category : i \in 1..Len(result.df)}
        /\ \A k, l \in 1..Len(result.summaries) :
              result.summaries[k].category = result.summaries[l].category => k = l
        /\ \A k \in 1..Len(result.summaries) :
              /\ result.summaries[k].sum
                    = DurationOver(RetainedOf(result.summaries[k].category))
              /\ result.summaries[k].minutes
                    = [num |-> DurationOver(RetainedOf(result.summaries[k].category)),
                       den |-> 60]
              /\ result.summaries[k].count
                    = Cardinality(RetainedOf(result.summaries[k].category))
        /\ SummaryCounts = Len(result.df)
        /\ SummarySums = DurationOver(1..Len(result.df))
        /\ \A k \in 1..Len(result.summaries) : k < Len(result.summaries) =>
              result.summaries[k].sum >= result.summaries[k + 1].sum

\* A summary of two categories of different totals
C16_Witness ==
    /\ Processed
    /\ Len(result.summaries) = 2
    /\ result.summaries[1].sum > result.summaries[2].sum
    /\ result.summaries[2].sum >= MIN_DURATION_THRESHOLD

\* The application name of the parsed record is present and contains name
IsKnownApplication(name) ==
    /\ ~parsed.row.app_name.isnull
    /\ \E i \in 1..Len(parsed.row.app_name.text) :
          StartsWithAt(parsed.row.app_name.text, i, name)

\* The label the rules give in their priority: the null title first, then
\* the browser, then the editor, then the application name
LabelByPriority ==
    IF parsed.row.title.isnull
    THEN UNKNOWN_CATEGORY
    ELSE IF IsKnownApplication(GOOGLE_CHROME)
         THEN parse_browser(parsed.row.title.text)
         ELSE IF IsKnownApplication(VISUAL_STUDIO_CODE)
              THEN parse_editor(parsed.row.title.text)
              ELSE parsed.row.app_name.text

\* C17 as stated: parse_title returns a label for every record: "Unknown"
\* for a null title whatever the application, else the browser rule's label
\* for a known browser, else the editor rule's label for a known editor, and
\* in every other case the application name verbatim
C17_FixedPriority ==
    parsed.called => (~parsed.raised /\ parsed.label = LabelByPriority)

\* What holds of parse_title instead: the priority above for every record
\* with an application name, and no label but a TypeError for a record with
\* a title and a null application name
C17_FixedPriorityOfNamedApplications ==
    parsed.called =>
        IF ~parsed.row.title.isnull /\ parsed.row.app_name.isnull
        THEN parsed.raised
        ELSE ~parsed.raised /\ parsed.label = LabelByPriority

\* parse_title was called with a title and a null application name and raised
C17_Witness ==
    /\ parsed.called
    /\ parsed.raised
    /\ ~parsed.row.title.isnull
    /\ parsed.row.app_name.isnull

\* The browser rule took precedence over the editor rule, and the null title
\* over both
C17_WitnessOfPriority ==
    /\ parsed.called
    /\ IsKnownApplication(GOOGLE_CHROME)
    /\ IsKnownApplication(VISUAL_STUDIO_CODE)
    /\ ~parsed.row.title.isnull
    /\ parsed.label = parse_browser(parsed.row.title.text)
    /\ parsed.label # parse_editor(parsed.row.title.text)

\* parse_title was called on a record of the editor with a title
ParsedEditorTitle ==
    /\ parsed.called
    /\ ~parsed.row.title.isnull
    /\ ~IsKnownApplication(GOOGLE_CHROME)
    /\ IsKnownApplication(VISUAL_STUDIO_CODE)

\* The first n characters of t are its portion before its first separator:
\* the separator follows them and starts nowhere before, or t has none and
\* they are all of t
IsBeforeFirstSeparator(t, n) ==
    /\ \A i \in 1..n : ~StartsWithAt(t, i, TITLE_SEPARATOR)
    /\ \/ StartsWithAt(t, n + 1, TITLE_SEPARATOR)
       \/ n = Len(t)

\* C18 as stated: for a record of the editor with a title, the label is the
\* portion of the title before its first separator
C18_PortionBeforeFirstSeparator ==
    ParsedEditorTitle =>
        \E n \in 0..Len(parsed.row.title.text) :
            /\ IsBeforeFirstSeparator(parsed.row.title.text, n)
            /\ parsed.label = SubSeq(parsed.row.title.text, 1, n)

\* C18: for a record of the editor with a title, the label is "VSCode - "
\* followed by the portion of the title before its first separator
C18_PrefixedPortionBeforeFirstSeparator ==
    ParsedEditorTitle =>
        \E n \in 0..Len(parsed.row.title.text) :
            /\ IsBeforeFirstSeparator(parsed.row.title.text, n)
            /\ parsed.label = VSCODE_PREFIX \o SubSeq(parsed.row.title.text, 1, n)

\* A title of the editor with two separators, labelled by its first part
C18_Witness ==
    /\ ParsedEditorTitle
    /\ Len(Split(parsed.row.title.text, TITLE_SEPARATOR)) = 3
    /\ parsed.label = VSCODE_PREFIX \o <<"m","a","i","n",".","p","y">>

\* The pairs a reader finds in a category file: those of its JSON object,
\* none in a file that is absent or does not parse
PairsOf(file) ==
    IF file.state = "valid" THEN file.content ELSE EMPTY_DICT

\* C19 as stated: no step of an analysis run, neither the load at
\* construction nor a call of map_activity_to_category with its save, takes
\* a pair out of the category file or changes its category, whether the
\* load or the save failed or not
C19_FileOnlyGrows ==
    [][ \A a \in DOMAIN PairsOf(category_file) :
           /\ a \in DOMAIN PairsOf(category_file')
           /\ PairsOf(category_file')[a] = PairsOf(category_file)[a] ]_vars

\* What holds of the file instead: a save that succeeds replaces the file by
\* the map in memory, which holds the pairs of the file only if the load
\* read them; a save that fails at open leaves the file as it is; a save
\* that fails after open leaves a file without pairs
C19_FileIsMapOrLost ==
    [][ /\ result'.op = "load" => category_file' = category_file
        /\ (result'.op = "map" /\ result'.saves = 0) => category_file' = category_file
        /\ (result'.op = "map" /\ result'.saves = 1) =>
              \/ result'.fault = "none" /\ PairsOf(category_file') = app_categories'
              \/ result'.fault = "open" /\ category_file' = category_file
              \/ result'.fault = "write" /\ PairsOf(category_file') = EMPTY_DICT ]_vars

\* The write of a save failed after the file was opened: the file holds no
\* pair, the map in memory holds three
C19_Witness ==
    /\ result.op = "map"
    /\ result.fault = "write"
    /\ category_file.state = "corrupt"
    /\ Cardinality(DOMAIN app_categories) = 3

\* The step that ends the sleep of an iteration and starts the next poll
SleepStep ==
    pc = "sleep" /\ pc' = "poll"

PauseStep ==
    PollStep /\ poll'.path = "inactive" /\ PauseRowAppended

\* C21 as stated: at the poll where pause() appends the _pause row, the
\* cursor has been read at the same position at every poll for more than
\* INACTIVITY_THRESHOLD seconds
C21_PauseOnlyWhenMouseStill ==
    [][ PauseStep =>
           /\ ~mouse_still_since'.is_none
           /\ now - mouse_still_since'.ts > INACTIVITY_THRESHOLD ]_vars

\* What holds of the _pause row instead: the cursor is where the poll before
\* read it, and the last row of this run was appended more than
\* INACTIVITY_THRESHOLD seconds ago
C21_PauseWhenNoRowForThreshold ==
    [][ PauseStep =>
           /\ mouse_still_since' = mouse_still_since
           /\ ~mouse_still_since.is_none
           /\ ~prev_action_ts.is_none
           /\ now - prev_action_ts.ts > INACTIVITY_THRESHOLD
           /\ \E i \in 1..Len(log_file.lines) :
                  log_file.lines[i].kind = "row"
                  /\ log_file.lines[i].timestamp <= prev_action_ts.ts ]_vars

\* A _pause row was appended although the cursor had moved within the last
\* INACTIVITY_THRESHOLD seconds
C21_Witness ==
    /\ pc = "sleep"
    /\ poll.path = "inactive"
    /\ poll.appended
    /\ log_file.lines[Len(log_file.lines)].app_name = PAUSE_APP
    /\ ~mouse_still_since.is_none
    /\ now - mouse_still_since.ts <= INACTIVITY_THRESHOLD

\* The _pause row of this run is the last row of the log, and the iteration
\* before this one took the inactive path
MarkerWritten ==
    /\ pc = "poll"
    /\ poll.path = "inactive"
    /\ ~prev_info.is_none
    /\ prev_info.app_name = PAUSE_APP
    /\ log_file.lines[Len(log_file.lines)] = MarkerRow(PAUSE_APP, prev_info.timestamp)

\* This iteration reads the cursor where the one before read it and sees
\* the window the one before saw
StillIdle ==
    /\ PollStep
    /\ poll'.path # "exception"
    /\ mouse_still_since' = mouse_still_since
    /\ poll'.window = poll.window

\* C22 as stated: once the _pause row is written, an iteration that finds
\* the cursor and the active window as the iteration before found them
\* appends no row, neither a second _pause nor the idle window's
C22_NoRowAfterMarker ==
    [][ (MarkerWritten /\ StillIdle) => NothingAppended ]_vars

\* What holds instead: the append of the _pause row restarts the idle clock
\* (prev_action_ts), so the iteration after it takes the normal path, finds
\* the idle window different from the recorded _pause and appends its row
\* unless that append fails; only a _pause row whose own append had failed
\* would be followed by iterations of the inactive path
C22_IdleWindowLoggedAfterMarker ==
    [][ (MarkerWritten /\ StillIdle) =>
           /\ poll'.path = "normal"
           /\ prev_action_ts.ts >= prev_info.timestamp
           /\ IF poll'.window.is_none
              THEN NothingAppended /\ prev_info' = prev_info
              ELSE /\ poll'.attempted
                   /\ prev_info' = WithTimestamp(poll'.window, now)
                   /\ (poll'.appended => WindowRowAppended)
                   /\ (~poll'.appended => NothingAppended) ]_vars

\* The idle window is in the log again, one iteration after the _pause row,
\* with the cursor still since before the window's first row
C22_Witness ==
    /\ pc = "sleep"
    /\ poll.path = "normal"
    /\ poll.appended
    /\ Len(log_file.lines) >= 4
    /\ \E n \in {Len(log_file.lines)} :
          /\ log_file.lines[n - 1].app_name = PAUSE_APP
          /\ log_file.lines[n - 2].kind = "row"
          /\ log_file.lines[n].app_name = log_file.lines[n - 2].app_name
          /\ log_file.lines[n].title = log_file.lines[n - 2].title
          /\ log_file.lines[n].timestamp
                <= log_file.lines[n - 1].timestamp + LogInterval + 1
          /\ ~mouse_still_since.is_none
          /\ mouse_still_since.ts <= log_file.lines[n - 2].timestamp

\* The row log_window_info writes for a record
RowOf(info) ==
    [kind |-> "row", app_name |-> info.app_name, title |-> info.title,
     timestamp |-> info.timestamp]

LastRow ==
    log_file.lines[Len(log_file.lines)]

\* prev_info is the record of the last row present in the log
PrevInfoIsLastRow ==
    /\ ~prev_info.is_none
    /\ Len(log_file.lines) >= 2
    /\ LastRow = RowOf(prev_info)

\* Rows i and i + 1 of the log have the same application name and title
SameWindowTwice(i) ==
    /\ log_file.lines[i].kind = "row"
    /\ log_file.lines[i].app_name = log_file.lines[i + 1].app_name
    /\ log_file.lines[i].title = log_file.lines[i + 1].title

\* C23 as stated: while the loop runs, a prev_info that is set is the record
\* of the last row present in the log, and the rows of one run (here the
\* first, on a log that did not exist) never repeat the application name and
\* title of the row before
C23_NoAdjacentDuplicates ==
    /\ (pc \in {"poll", "sleep"} /\ ~prev_info.is_none) => PrevInfoIsLastRow
    /\ runs = 1 => \A i \in 1..(Len(log_file.lines) - 1) : ~SameWindowTwice(i)

\* C23: after every append of the loop that succeeds prev_info is the record
\* of the last row; a row appended while prev_info is the record of the last
\* row differs from that row in application name or title; prev_info stops
\* being the record of the last row only when an append fails, which changes
\* prev_info and not the log
C23_NoAdjacentDuplicatesUnlessAppendFailed ==
    [][ PollStep =>
          /\ (log_file' # log_file) => PrevInfoIsLastRow'
          /\ (log_file' # log_file /\ PrevInfoIsLastRow) =>
                \/ LastRow'.app_name # LastRow.app_name
                \/ LastRow'.title # LastRow.title
          /\ (PrevInfoIsLastRow /\ ~PrevInfoIsLastRow') =>
                /\ NothingAppended
                /\ ~poll'.appended
                /\ prev_info' # prev_info
                /\ (poll'.attempted \/ poll'.path = "inactive")
      ]_vars

\* A first run in which the append for another window failed and the window
\* of the last row came back: its row is in the log twice in a row
C23_Witness ==
    /\ runs = 1
    /\ pc = "sleep"
    /\ poll.appended
    /\ poll.path = "normal"
    /\ PrevInfoIsLastRow
    /\ Len(log_file.lines) >= 3
    /\ SameWindowTwice(Len(log_file.lines) - 1)

\* The classified records whose category, as the map has it after the run,
\* is not Unknown
KnownRecords ==
    {i \in ClassifiedRecords :
        app_categories[parse_title(result.timed[i]).label] # UNKNOWN_CATEGORY}

RECURSIVE TimedDurationOver(_)
TimedDurationOver(S) ==
    IF S = {} THEN 0
    ELSE LET i == CHOOSE x \in S : TRUE
         IN  result.timed[i].duration.v + TimedDurationOver(S \ {i})

\* C24: no entry of the summary has the category Unknown; the summarized
\* frame holds exactly the classified records whose category is not Unknown;
\* the denominator of every percentage is the sum of the durations of those
\* records alone; and every prompt is for the label of a classified record,
\* which the last record of the day, dropped with its missing duration, is
\* not
C24_NoUnknownInSummary ==
    Processed =>
        /\ \A k \in 1..Len(result.summaries) :
              /\ result.summaries[k].category # UNKNOWN_CATEGORY
              /\ result.summaries[k].percentage.den = TimedDurationOver(KnownRecords)
        /\ {result.df[j].idx : j \in 1..Len(result.df)}
              = {result.timed[i].idx : i \in KnownRecords}
        /\ \A k \in 1..Len(result.prompts) :
              \E i \in ClassifiedRecords :
                  parse_title(result.timed[i]).label = result.prompts[k]
        /\ \A i \in 1..Len(result.timed) :
              /\ result.timed[i].idx \in DayRecords
              /\ ~LastOfDay(result.timed[i].idx)

\* A summary of a day with a record whose activity the user was asked about
\* and called Unknown, and whose last record has a label never asked about
C24_Witness ==
    /\ Processed
    /\ result.summaries # <<>>
    /\ \E i \in ClassifiedRecords \ KnownRecords :
          \E k \in 1..Len(result.prompts) :
              result.prompts[k] = parse_title(result.timed[i]).label
    /\ result.summaries[1].percentage.den < TimedDurationOver(ClassifiedRecords)
    /\ \E k \in DayRecords :
          /\ LastOfDay(k)
          /\ parse_title([app_name |-> read_csv_cell(LogRecord(k).app_name),
                          title    |-> read_csv_cell(LogRecord(k).title)]).label
                \notin DOMAIN app_categories

====
